---- MODULE Spec2Model ----
(***************************************************************************)
(* A model of Magic-slides-ai: the chat history service (session store),   *)
(* the Gemini client (generateSlides / parseResponse) and the Home page    *)
(* component that drives them.                                             *)
(*                                                                         *)
(* Texts are sequences of one-character strings, so that split, join,      *)
(* length and substring are computed as the code computes them.           *)
(* Optional values (a field that may be undefined) are <<>> or <<v>>.      *)
(***************************************************************************)
EXTENDS Integers, Sequences, FiniteSets, TLC

\* ------------------------------------------------------------------ bounds
\* Steps (store operations, faults of the storage, clock ticks) of one behaviour
\* of SpecStore.
MaxSteps == 3

\* ------------------------------------------------------------ small helpers
None == <<>>
Some(x) == <<x>>

Range(s) == {s[i] : i \in 1..Len(s)}

\* Array.prototype.filter
Filter(s, P(_)) == SelectSeq(s, P)

\* Array.prototype.findIndex, 1-based; 0 stands for -1 (not found)
FindIndex(s, P(_)) ==
  IF \E i \in 1..Len(s) : P(s[i])
  THEN CHOOSE i \in 1..Len(s) : P(s[i]) /\ \A j \in 1..(i - 1) : ~P(s[j])
  ELSE 0

\* Array.prototype.map
MapSeq(s, F(_)) == [i \in 1..Len(s) |-> F(s[i])]

\* ------------------------------------------------------------------- texts
\* String.prototype.split(' '): one piece per separator, empty pieces kept
Split(s) ==
  LET spaces == {i \in 1..Len(s) : s[i] = " "}
      \* the position of the k-th separator; 0 and Len(s) + 1 bound the text
      sep(k) == IF k = 0 THEN 0
                ELSE IF k > Cardinality(spaces) THEN Len(s) + 1
                ELSE CHOOSE p \in spaces : Cardinality({q \in spaces : q <= p}) = k
  IN  [k \in 1..(Cardinality(spaces) + 1) |-> SubSeq(s, sep(k - 1) + 1, sep(k) - 1)]

\* Array.prototype.slice(0, n)
SliceTo(s, n) == IF Len(s) <= n THEN s ELSE SubSeq(s, 1, n)

\* Array.prototype.join(' ')
RECURSIVE Join(_)
Join(ws) ==
  IF ws = <<>> THEN <<>>
  ELSE IF Len(ws) = 1 THEN ws[1]
       ELSE ws[1] \o <<" ">> \o Join(Tail(ws))

TitleWords == 5
TitleMax == 30
Ellipsis == <<".", ".", ".">>

generateSessionTitleFromThirty(firstMessage) ==
  LET words == Join(SliceTo(Split(firstMessage), TitleWords))
  IN  IF Len(words) >= TitleMax THEN SubSeq(words, 1, TitleMax) \o Ellipsis ELSE words

generateSessionTitle(firstMessage) ==
  LET words == Join(SliceTo(Split(firstMessage), TitleWords))
  IN  IF Len(words) > TitleMax THEN SubSeq(words, 1, TitleMax) \o Ellipsis ELSE words

DefaultTitle == <<"N","e","w"," ","P","r","e","s","e","n","t","a","t","i","o","n">>

\* ------------------------------------------------------- session store data
\* currentSessionId: string | null
NoSession == "null"

\* generateId: Date.now() + a random suffix, a string no earlier call returned;
\* n counts the calls made so far
generateId(n) == "s" \o ToString(n)

\* JSON.stringify / new Date(iso): a Date is persisted as its ISO string
DateToISO(t) == <<"iso", t>>
ISOToDate(iso) == iso[2]

MsgToJSON(m) == [m EXCEPT !.timestamp = DateToISO(@)]
MsgFromJSON(j) == [j EXCEPT !.timestamp = ISOToDate(@)]

SessionToJSON(s) ==
  [s EXCEPT !.createdAt = DateToISO(@), !.updatedAt = DateToISO(@),
            !.messages = MapSeq(@, MsgToJSON)]

SessionFromJSON(j) ==
  [j EXCEPT !.createdAt = ISOToDate(@), !.updatedAt = ISOToDate(@),
            !.messages = MapSeq(@, MsgFromJSON)]

\* The value under STORAGE_KEY in localStorage: no item, an item that is not the
\* JSON of a session array, or the JSON of a session array.
NoItem == [kind |-> "none", json |-> <<>>]
CorruptItem == [kind |-> "corrupt", json |-> <<>>]
Item(sessions) == [kind |-> "json", json |-> MapSeq(sessions, SessionToJSON)]

\* A store state: the persisted item, the process-local current pointer, whether
\* localStorage.setItem throws (quota exceeded), and the number of ids generated.
Store(item, cur, full, ids) == [item |-> item, cur |-> cur, full |-> full, ids |-> ids]

\* The outcome of a call: the store after it, whether it threw, what it returned.
Return(st, v) == [st |-> st, threw |-> FALSE, ret |-> v]
Throw(st) == [st |-> st, threw |-> TRUE, ret |-> None]

getSessionsCall(st) ==
  IF st.item.kind = "json" THEN Return(st, MapSeq(st.item.json, SessionFromJSON))
  ELSE Return(st, <<>>)

getSessions(st) == getSessionsCall(st).ret

saveSessions(st, sessions) ==
  IF st.full THEN Throw(st)
  ELSE Return([st EXCEPT !.item = Item(sessions)], None)

createNewSessionAtBack(st, title, now) ==
  LET newSession == [id |-> generateId(st.ids + 1), title |-> title, messages |-> <<>>,
                     createdAt |-> now, updatedAt |-> now]
      st1 == [st EXCEPT !.ids = @ + 1]
      saved == saveSessions(st1, getSessions(st1) \o <<newSession>>)
  IN  IF saved.threw THEN Throw(saved.st)
      ELSE Return([saved.st EXCEPT !.cur = newSession.id], newSession)

createNewSession(st, title, now) ==
  LET newSession == [id |-> generateId(st.ids + 1), title |-> title, messages |-> <<>>,
                     createdAt |-> now, updatedAt |-> now]
      st1 == [st EXCEPT !.ids = @ + 1]
      saved == saveSessions(st1, <<newSession>> \o getSessions(st1))
  IN  IF saved.threw THEN Throw(saved.st)
      ELSE Return([saved.st EXCEPT !.cur = newSession.id], newSession)

getCurrentSession(st) ==
  IF st.cur = NoSession THEN None
  ELSE LET sessions == getSessions(st)
           i == FindIndex(sessions, LAMBDA s : s.id = st.cur)
       IN  IF i = 0 THEN None ELSE Some(sessions[i])

setCurrentSession(st, sessionId) == Return([st EXCEPT !.cur = sessionId], None)

ensureDefaultSession(st, now) ==
  LET sessions == getSessions(st)
  IN  IF Len(sessions) = 0 THEN createNewSession(st, DefaultTitle, now)
      ELSE Return([st EXCEPT !.cur = sessions[1].id], None)

\* slides ? { ...message, slides } : message  (an empty array is truthy)
WithSlides(message, slides) ==
  IF slides # None THEN [message EXCEPT !.slides = slides] ELSE message

IsUserMsg(m) == m.isUser

addMessageNoRetitle(st, message, slides, now) ==
  LET sessions == getSessions(st)
      i == FindIndex(sessions, LAMBDA s : s.id = st.cur)
  IN  IF i = 0 THEN Return(st, None)
      ELSE LET pushed == Append(sessions[i].messages, WithSlides(message, slides))
               session == [sessions[i] EXCEPT !.messages = pushed, !.updatedAt = now]
               saved == saveSessions(st, [sessions EXCEPT ![i] = session])
           IN  IF saved.threw THEN Throw(saved.st) ELSE Return(saved.st, None)

addMessageRetitleAlways(st, message, slides, now) ==
  LET sessions == getSessions(st)
      i == FindIndex(sessions, LAMBDA s : s.id = st.cur)
  IN  IF i = 0 THEN Return(st, None)
      ELSE LET pushed == Append(sessions[i].messages, WithSlides(message, slides))
               session == [sessions[i] EXCEPT
                             !.messages = pushed,
                             !.updatedAt = now,
                             !.title = IF message.isUser THEN generateSessionTitle(message.text)
                                       ELSE @]
               saved == saveSessions(st, [sessions EXCEPT ![i] = session])
           IN  IF saved.threw THEN Throw(saved.st) ELSE Return(saved.st, None)

addMessageAfterCreate(st, message, slides, now) ==
  LET sessions == getSessions(st)
      i == FindIndex(sessions, LAMBDA s : s.id = st.cur)
  IN  IF i = 0 THEN Return(st, None)
      ELSE LET pushed == Append(sessions[i].messages, WithSlides(message, slides))
               first == message.isUser /\ Len(Filter(pushed, IsUserMsg)) = 1
               session == [sessions[i] EXCEPT
                             !.messages = pushed,
                             !.updatedAt = now,
                             !.title = IF first THEN generateSessionTitle(message.text) ELSE @]
               saved == saveSessions(st, [sessions EXCEPT ![i] = session])
           IN  IF saved.threw THEN Throw(saved.st) ELSE Return(saved.st, None)

addMessageNoImplicitCreate(st, message, slides, now) ==
  addMessageAfterCreate(st, message, slides, now)

addMessageToCurrentSession(st, message, slides, now) ==
  IF st.cur = NoSession
  THEN LET created == createNewSession(st, generateSessionTitle(message.text), now)
       IN  IF created.threw THEN Throw(created.st)
           ELSE addMessageAfterCreate(created.st, message, slides, now)
  ELSE addMessageAfterCreate(st, message, slides, now)

updateCurrentSessionSlidesAnyAuthor(st, slides, now) ==
  IF st.cur = NoSession THEN Return(st, None)
  ELSE LET sessions == getSessions(st)
           i == FindIndex(sessions, LAMBDA s : s.id = st.cur)
       IN  IF i # 0 /\ Len(sessions[i].messages) > 0
           THEN LET last == Len(sessions[i].messages)
                    session == [sessions[i] EXCEPT !.messages[last].slides = Some(slides),
                                                   !.updatedAt = now]
                    saved == saveSessions(st, [sessions EXCEPT ![i] = session])
                IN  IF saved.threw THEN Throw(saved.st) ELSE Return(saved.st, None)
           ELSE Return(st, None)

updateCurrentSessionSlides(st, slides, now) ==
  IF st.cur = NoSession THEN Return(st, None)
  ELSE LET sessions == getSessions(st)
           i == FindIndex(sessions, LAMBDA s : s.id = st.cur)
       IN  IF i # 0 /\ Len(sessions[i].messages) > 0
           THEN LET last == Len(sessions[i].messages)
                IN  IF ~sessions[i].messages[last].isUser
                    THEN LET session == [sessions[i] EXCEPT
                                           !.messages[last].slides = Some(slides),
                                           !.updatedAt = now]
                             saved == saveSessions(st, [sessions EXCEPT ![i] = session])
                         IN  IF saved.threw THEN Throw(saved.st) ELSE Return(saved.st, None)
                    ELSE Return(st, None)
           ELSE Return(st, None)

deleteSessionKeepsPointer(st, sessionId) ==
  LET sessions == Filter(getSessions(st), LAMBDA s : s.id # sessionId)
      saved == saveSessions(st, sessions)
  IN  IF saved.threw THEN Throw(saved.st) ELSE Return(saved.st, None)

deleteSession(st, sessionId) ==
  LET sessions == Filter(getSessions(st), LAMBDA s : s.id # sessionId)
      saved == saveSessions(st, sessions)
  IN  IF saved.threw THEN Throw(saved.st)
      ELSE IF st.cur = sessionId
           THEN Return([saved.st EXCEPT
                          !.cur = IF Len(sessions) > 0 THEN sessions[1].id ELSE NoSession], None)
           ELSE Return(saved.st, None)

clearAllSessionsLeavesNone(st, now) ==
  LET saved == saveSessions(st, <<>>)
  IN  IF saved.threw THEN Throw(saved.st)
      ELSE Return([saved.st EXCEPT !.cur = NoSession], None)

clearAllSessions(st, now) ==
  LET saved == saveSessions(st, <<>>)
  IN  IF saved.threw THEN Throw(saved.st)
      ELSE ensureDefaultSession([saved.st EXCEPT !.cur = NoSession], now)

\* ------------------------------------------------------------ Gemini client
\* JSON values as JSON.parse builds them: t is the type, v the payload (the
\* characters of a string or number, the elements of an array, the <<key, value>>
\* members of an object in source order).
JNull == [t |-> "null", v |-> <<>>]
JBool(b) == [t |-> "bool", v |-> <<b>>]
JNum(digits) == [t |-> "num", v |-> digits]
JStr(chars) == [t |-> "str", v |-> chars]
JArr(elems) == [t |-> "arr", v |-> elems]
JObj(members) == [t |-> "obj", v |-> members]

Quote == "\""
\* the backtick character, which a string of this language cannot hold
Backtick == "backtick"
Fence == <<Backtick, Backtick, Backtick>>
FenceJson == Fence \o <<"j", "s", "o", "n">>
Digits == {"0", "1", "2", "3", "4", "5", "6", "7", "8", "9"}

\* \s of a regular expression, and the whitespace of JSON
IsWs(c) == c \in {" ", "\n", "\t", "\r"}

\* the first position from i on that holds no whitespace
SkipWs(s, i) ==
  IF \E j \in i..Len(s) : ~IsWs(s[j])
  THEN CHOOSE j \in i..Len(s) : ~IsWs(s[j]) /\ \A k \in i..(j - 1) : IsWs(s[k])
  ELSE IF i > Len(s) THEN i ELSE Len(s) + 1

HasAt(s, i, w) == i + Len(w) - 1 <= Len(s) /\ SubSeq(s, i, i + Len(w) - 1) = w

\* text.replace(/```json\s*|\s*```/g, ''): at each position the first
\* alternative is tried, then the second; a match is dropped and the scan goes on
\* after it
\* a match of the pattern starts at i; the position after that match
FenceMatchAt(s, i) == HasAt(s, i, FenceJson) \/ HasAt(s, SkipWs(s, i), Fence)
FenceMatchEnd(s, i) ==
  IF HasAt(s, i, FenceJson) THEN SkipWs(s, i + Len(FenceJson))
  ELSE SkipWs(s, i) + Len(Fence)

RECURSIVE StripFencesFrom(_, _)
StripFencesFrom(s, i) ==
  LET starts == {j \in i..Len(s) : FenceMatchAt(s, j)}
      a == CHOOSE j \in starts : \A k \in starts : j <= k
  IN  IF starts = {} THEN SubSeq(s, i, Len(s))
      ELSE SubSeq(s, i, a - 1) \o StripFencesFrom(s, FenceMatchEnd(s, a))

StripFences(s) == StripFencesFrom(s, 1)

\* String.prototype.trim
Trim(s) ==
  LET inked == {i \in 1..Len(s) : ~IsWs(s[i])}
  IN  IF inked = {} THEN <<>>
      ELSE SubSeq(s, CHOOSE i \in inked : \A j \in inked : i <= j,
                     CHOOSE i \in inked : \A j \in inked : i >= j)

Positions(s, c) == {i \in 1..Len(s) : s[i] = c}
Min(S) == CHOOSE x \in S : \A y \in S : x <= y
Max(S) == CHOOSE x \in S : \A y \in S : x >= y

\* cleanedText.match(/\{[\s\S]*\}/): the match starts at the first "{" and, the
\* star being greedy, ends at the last "}" after it; <<>> stands for null
MatchBraces(s) ==
  LET opens == Positions(s, "{")
      a == Min(opens)
      closes == {j \in Positions(s, "}") : j > a}
  IN  IF opens = {} \/ closes = {} THEN None
      ELSE Some(SubSeq(s, a, Max(closes)))

\* JSON.parse, for objects, arrays, strings without escapes, null, true, false
\* and unsigned integers; every other text is a SyntaxError. A parse step gives
\* the value and the position after it.
ParseFail == [ok |-> FALSE, val |-> JNull, next |-> 0]
ParseOk(val, next) == [ok |-> TRUE, val |-> val, next |-> next]

\* the first position from i on that holds no digit
SkipDigits(s, i) ==
  IF \E j \in i..Len(s) : s[j] \notin Digits
  THEN CHOOSE j \in i..Len(s) : s[j] \notin Digits /\ \A k \in i..(j - 1) : s[k] \in Digits
  ELSE Len(s) + 1

\* s[i] is the opening quote
ParseString(s, i) ==
  LET closing == {j \in Positions(s, Quote) : j > i}
      j == Min(closing)
  IN  IF closing = {} THEN ParseFail
      ELSE IF \E k \in (i + 1)..(j - 1) : s[k] \in {"\n", "\t", "\r"} THEN ParseFail
      ELSE ParseOk(JStr(SubSeq(s, i + 1, j - 1)), j + 1)

RECURSIVE ParseValue(_, _)
RECURSIVE ParseMembers(_, _, _)
RECURSIVE ParseElements(_, _, _)

ParseValue(s, i0) ==
  LET i == SkipWs(s, i0)
  IN  IF i > Len(s) THEN ParseFail
      ELSE IF s[i] = "{" THEN
             LET j == SkipWs(s, i + 1)
             IN  IF j <= Len(s) /\ s[j] = "}" THEN ParseOk(JObj(<<>>), j + 1)
                 ELSE ParseMembers(s, j, <<>>)
      ELSE IF s[i] = "[" THEN
             LET j == SkipWs(s, i + 1)
             IN  IF j <= Len(s) /\ s[j] = "]" THEN ParseOk(JArr(<<>>), j + 1)
                 ELSE ParseElements(s, j, <<>>)
      ELSE IF s[i] = Quote THEN ParseString(s, i)
      ELSE IF HasAt(s, i, <<"n", "u", "l", "l">>) THEN ParseOk(JNull, i + 4)
      ELSE IF HasAt(s, i, <<"t", "r", "u", "e">>) THEN ParseOk(JBool(TRUE), i + 4)
      ELSE IF HasAt(s, i, <<"f", "a", "l", "s", "e">>) THEN ParseOk(JBool(FALSE), i + 5)
      ELSE IF s[i] \in Digits THEN
             ParseOk(JNum(SubSeq(s, i, SkipDigits(s, i) - 1)), SkipDigits(s, i))
      ELSE ParseFail

\* the members of an object from position i (a key is expected there) on
ParseMembers(s, i, acc) ==
  IF i > Len(s) \/ s[i] # Quote THEN ParseFail
  ELSE LET key == ParseString(s, i)
           colon == IF key.ok THEN SkipWs(s, key.next) ELSE 0
       IN  IF ~key.ok \/ colon > Len(s) \/ s[colon] # ":" THEN ParseFail
           ELSE LET value == ParseValue(s, colon + 1)
                    sep == IF value.ok THEN SkipWs(s, value.next) ELSE 0
                    members == Append(acc, <<key.val.v, value.val>>)
                IN  IF ~value.ok \/ sep > Len(s) THEN ParseFail
                    ELSE IF s[sep] = "}" THEN ParseOk(JObj(members), sep + 1)
                    ELSE IF s[sep] = "," THEN ParseMembers(s, SkipWs(s, sep + 1), members)
                    ELSE ParseFail

\* the elements of an array from position i on
ParseElements(s, i, acc) ==
  LET value == ParseValue(s, i)
      sep == IF value.ok THEN SkipWs(s, value.next) ELSE 0
      elems == Append(acc, value.val)
  IN  IF ~value.ok \/ sep > Len(s) THEN ParseFail
      ELSE IF s[sep] = "]" THEN ParseOk(JArr(elems), sep + 1)
      ELSE IF s[sep] = "," THEN ParseElements(s, sep + 1, elems)
      ELSE ParseFail

\* <<>> stands for the SyntaxError
JSONParse(s) ==
  LET r == ParseValue(s, 1)
  IN  IF r.ok /\ SkipWs(s, r.next) = Len(s) + 1 THEN Some(r.val) ELSE None

\* obj[key]: the last member with that key, <<>> for undefined
GetMember(obj, key) ==
  IF obj.t # "obj" THEN None
  ELSE LET hits == {k \in 1..Len(obj.v) : obj.v[k][1] = key}
       IN  IF hits = {} THEN None ELSE Some(obj.v[Max(hits)][2])

\* !x is false
Truthy(x) ==
  /\ x # None
  /\ x[1].t # "null"
  /\ x[1] # JBool(FALSE)
  /\ x[1] # JNum(<<"0">>)
  /\ x[1] # JStr(<<>>)

SlidesKey == <<"s", "l", "i", "d", "e", "s">>
TitleKey == <<"t", "i", "t", "l", "e">>
ContentKey == <<"c", "o", "n", "t", "e", "n", "t">>
LayoutKey == <<"l", "a", "y", "o", "u", "t">>

GenFailMsg == <<"F","a","i","l","e","d"," ","t","o"," ","g","e","n","e","r","a","t","e"," ","p","r","e","s","e","n","t","a","t","i","o","n"," ","c","o","n","t","e","n","t","."," ","P","l","e","a","s","e"," ","t","r","y"," ","a","g","a","i","n",".">>
ParseFailMsg == <<"F","a","i","l","e","d"," ","t","o"," ","p","a","r","s","e"," ","A","I"," ","r","e","s","p","o","n","s","e","."," ","P","l","e","a","s","e"," ","t","r","y"," ","a","g","a","i","n",".">>

\* The outcome of a call of the client: a value, or an Error with a message.
Resolved(v) == [threw |-> FALSE, ret |-> v, message |-> <<>>]
Rejected(msg) == [threw |-> TRUE, ret |-> <<>>, message |-> msg]

\* if (!parsed.slides || !Array.isArray(parsed.slides)) throw; return parsed.slides
SlidesOrThrow(slides) ==
  IF ~Truthy(slides) \/ slides[1].t # "arr" THEN Rejected(ParseFailMsg)
  ELSE Resolved(slides[1].v)

\* parsed is what JSON.parse gave, <<>> when it threw
ParsedOrThrow(parsed) ==
  IF parsed = None THEN Rejected(ParseFailMsg)
  ELSE SlidesOrThrow(GetMember(parsed[1], SlidesKey))

\* if (!jsonMatch) throw; JSON.parse(jsonMatch[0])
MatchOrThrow(jsonMatch) ==
  IF jsonMatch = None THEN Rejected(ParseFailMsg)
  ELSE ParsedOrThrow(JSONParse(jsonMatch[1]))

\* every throw inside the try block ends in the catch block, which throws the
\* parse error
parseResponse(text) == MatchOrThrow(MatchBraces(Trim(StripFences(text))))

\* What model.generateContent(fullPrompt) settled with: a response whose text()
\* is text, or a rejection carrying an error of the SDK.
UpstreamText(text) == [kind |-> "text", text |-> text, error |-> <<>>]
UpstreamError(e) == [kind |-> "error", text |-> <<>>, error |-> e]

\* a catch block that throws the error it caught
generateSlidesRethrow(upstream) ==
  IF upstream.kind = "error" THEN Rejected(upstream.error)
  ELSE parseResponse(upstream.text)

\* the catch block of generateSlides: whatever was thrown, the generation error
CatchAll(r) == IF r.threw THEN Rejected(GenFailMsg) ELSE r

generateSlides(upstream) ==
  IF upstream.kind = "error" THEN Rejected(GenFailMsg)
  ELSE CatchAll(parseResponse(upstream.text))

\* JSON.stringify without indentation: the text of a JSON value
RECURSIVE ToJSON(_)
RECURSIVE ToJSONList(_, _)
ToJSON(v) ==
  IF v.t = "str" THEN <<Quote>> \o v.v \o <<Quote>>
  ELSE IF v.t = "num" THEN v.v
  ELSE IF v.t = "null" THEN <<"n", "u", "l", "l">>
  ELSE IF v.t = "bool" THEN (IF v.v[1] THEN <<"t", "r", "u", "e">> ELSE <<"f", "a", "l", "s", "e">>)
  ELSE IF v.t = "arr" THEN <<"[">> \o ToJSONList(v.v, FALSE) \o <<"]">>
  ELSE <<"{">> \o ToJSONList(v.v, TRUE) \o <<"}">>

\* the elements of an array, or the members of an object, separated by commas
ToJSONList(xs, members) ==
  IF xs = <<>> THEN <<>>
  ELSE LET one == IF members THEN <<Quote>> \o xs[1][1] \o <<Quote, ":">> \o ToJSON(xs[1][2])
                  ELSE ToJSON(xs[1])
       IN  IF Len(xs) = 1 THEN one ELSE one \o <<",">> \o ToJSONList(Tail(xs), members)

\* --------------------------------------------------- what the upstream returns
JSlide(title, line, layout) ==
  JObj(<< <<TitleKey, JStr(title)>>, <<ContentKey, JArr(<<JStr(line)>>)>>,
          <<LayoutKey, JStr(layout)>> >>)

LayoutTitle == <<"T", "I", "T", "L", "E">>
JSlideA == JSlide(<<"A">>, <<"x">>, LayoutTitle)
JSlideB == JSlide(<<"B">>, <<"y">>, LayoutTitle)
JSlideNoTitle == JObj(<< <<ContentKey, JArr(<<JStr(<<"x">>)>>)>>, <<LayoutKey, JStr(LayoutTitle)>> >>)
JSlideTextContent == JObj(<< <<TitleKey, JStr(<<"A">>)>>, <<ContentKey, JStr(<<"x">>)>>,
                             <<LayoutKey, JStr(LayoutTitle)>> >>)

Deck(slides) == JObj(<< <<SlidesKey, JArr(slides)>> >>)

\* objects whose slides member is a sequence
DeckBodies == {Deck(<<JSlideA>>), Deck(<<JSlideA, JSlideB>>), Deck(<<JSlideB, JSlideA>>),
               Deck(<<>>), Deck(<<JSlideNoTitle>>), Deck(<<JSlideTextContent>>)}
\* objects without one
OtherBodies == {JObj(<< <<SlidesKey, JStr(<<"n", "o">>)>> >>),
                JObj(<< <<SlidesKey, JNull>> >>),
                JObj(<< <<TitleKey, JArr(<<>>)>> >>)}
Bodies == DeckBodies \cup OtherBodies

Leads == {<<>>, <<"H","e","r","e"," ","y","o","u"," ","g","o",":","\n">>, <<"U","s","e"," ","{","x","}",":"," ">>}
Trails == {<<>>, <<"\n","E","n","j","o","y","!">>, <<" ",":","}">>}

\* lead, an optional code fence around the object, trail
Compose(lead, fenced, body, trail) ==
  lead \o (IF fenced THEN FenceJson \o <<"\n">> ELSE <<>>) \o ToJSON(body)
       \o (IF fenced THEN <<"\n">> \o Fence ELSE <<>>) \o trail

\* an indented answer, an answer that is no JSON, and an answer without an object
PrettyText == <<Backtick,Backtick,Backtick,"j","s","o","n","\n","{","\n"," "," ","\"","s","l","i","d","e","s","\"",":"," ","[","\n"," "," "," "," ","{","\n"," "," "," "," "," "," ","\"","t","i","t","l","e","\"",":"," ","\"","A","\"",",","\n"," "," "," "," "," "," ","\"","c","o","n","t","e","n","t","\"",":"," ","[","\n"," "," "," "," "," "," "," "," ","\"","x","\"","\n"," "," "," "," "," "," ","]",",","\n"," "," "," "," "," "," ","\"","l","a","y","o","u","t","\"",":"," ","\"","T","I","T","L","E","\"","\n"," "," "," "," ","}","\n"," "," ","]","\n","}","\n",Backtick,Backtick,Backtick>>
BrokenText == <<"{","s","l","i","d","e","s",":"," ","[","]","}">>
ProseText == <<"S","o","r","r","y",","," ","I"," ","c","a","n","n","o","t",".">>
RawTexts == {PrettyText, BrokenText, ProseText}

UpstreamErrors == {<<"f","e","t","c","h"," ","f","a","i","l","e","d">>, <<"A","P","I"," ","k","e","y"," ","n","o","t"," ","v","a","l","i","d">>}

\* ---------------------------------------------------------------- inputs
\* A Slide Document the callers attach; the store never looks inside it.
Doc1 == <<JSlideA>>
Docs == {Doc1}

\* 2 characters in 1 word; 8 words of 7 characters (the first five joined: 39)
ShortText == <<"h","i">>
LongText == <<"a","a","a","a","a","a","a"," ","a","a","a","a","a","a","a"," ","a","a","a","a","a","a","a"," ","a","a","a","a","a","a","a"," ","a","a","a","a","a","a","a"," ","a","a","a","a","a","a","a"," ","a","a","a","a","a","a","a"," ","a","a","a","a","a","a","a">>
Texts == {ShortText, LongText}
DeckTitle == <<"D","e","c","k">>

\* An id no session ever has
GhostId == "ghost"

Message(text, isUser, now) ==
  [text |-> text, isUser |-> isUser, timestamp |-> now, slides |-> None]

\* A session a previous visit persisted
OldSession ==
  [id |-> generateId(0), title |-> ShortText,
   messages |-> <<Message(ShortText, TRUE, 0),
                  [Message(ShortText, FALSE, 0) EXCEPT !.slides = Some(Doc1)]>>,
   createdAt |-> 0, updatedAt |-> 0]

\* A session whose last generation failed: the error reply carries no slides
RetriedSession ==
  [id |-> "retried", title |-> ShortText,
   messages |-> OldSession.messages \o <<Message(ShortText, TRUE, 0), Message(ProseText, FALSE, 0)>>,
   createdAt |-> 0, updatedAt |-> 0]

InitialItems == {NoItem, CorruptItem, Item(<<>>), Item(<<OldSession>>)}

\* ------------------------------------------------------------------ state
VARIABLES
  store,    \* the ChatHistoryService singleton and the localStorage item it owns
  clock,    \* Date.now()
  steps,    \* operations performed so far
  lastOp,   \* the last operation: name, arguments, outcome, the store before it
  prevOp,   \* the operation before it
  gem,      \* one call of geminiService.generateSlides
  ui,       \* the state of the Home component as last rendered
  timers,   \* the setTimeout callbacks not yet run, each with the render it closed over
  gens,     \* the generateSlides calls handleSend is awaiting
  exports,  \* the generatePresentation calls handleDownload is awaiting
  ppt       \* one call of generatePresentation

storeVars == <<store, clock, steps, lastOp, prevOp>>
uiVars == <<ui, timers, gens, exports>>
vars == <<store, clock, steps, lastOp, prevOp, gem, ui, timers, gens, exports, ppt>>

Op(name, arg, out, before) ==
  [name |-> name, arg |-> arg, threw |-> out.threw, ret |-> out.ret, pre |-> before]

NoOp == [name |-> "none", arg |-> <<>>, threw |-> FALSE, ret |-> None,
         pre |-> Store(NoItem, NoSession, FALSE, 0)]

\* One call of a store operation with outcome out
Call(name, arg, out) ==
  /\ steps < MaxSteps
  /\ store' = out.st
  /\ steps' = steps + 1
  /\ lastOp' = Op(name, arg, out, store)
  /\ prevOp' = [lastOp EXCEPT !.pre = NoOp.pre, !.ret = None]
  /\ UNCHANGED <<clock, gem, ppt, uiVars>>

KnownIds == {generateId(k) : k \in 0..store.ids} \cup {GhostId}

\* No call of generateSlides has been made.
GemIdle == [pc |-> "idle", upstream |-> UpstreamText(<<>>), shape |-> None,
            result |-> Resolved(<<>>)]

\* No call of generatePresentation has been made.
PptIdle == [pc |-> "idle", slides |-> <<>>, forPreview |-> FALSE, format |-> "pptx",
            window |-> TRUE, onProgress |-> TRUE, timestamp |-> 0, pdfFailed |-> FALSE,
            fallbackFailed |-> FALSE,
            events |-> <<>>, rendered |-> <<>>, files |-> <<>>, urls |-> 0,
            result |-> Resolved(<<>>)]

\* useState(...) of the first render, before the effect has run
Unmounted(apiKey) ==
  [apiKey |-> apiKey, mounted |-> FALSE, apiError |-> FALSE, geminiService |-> FALSE,
   importing |-> FALSE, messages |-> <<>>, inputText |-> <<>>, slides |-> <<>>,
   isLoading |-> FALSE, chatSessions |-> <<>>, currentSession |-> None]

NoUi ==
  /\ ui = Unmounted(TRUE)
  /\ timers = <<>>
  /\ gens = <<>>
  /\ exports = <<>>

\* new ChatHistoryService() over what localStorage holds
InitStore ==
  /\ gem = GemIdle
  /\ ppt = PptIdle
  /\ NoUi
  /\ clock = 0
  /\ steps = 0
  /\ \E item \in InitialItems :
       LET before == Store(item, NoSession, FALSE, 0)
           out == ensureDefaultSession(before, 0)
       IN  /\ store = out.st
           /\ lastOp = Op("construct", <<>>, out, before)
  /\ prevOp = NoOp

ListSessions == Call("listSessions", <<>>, getSessionsCall(store))

CreateSession ==
  \E t \in {None, Some(DeckTitle)} :
    Call("createSession", <<t>>,
         createNewSession(store, IF t = None THEN DefaultTitle ELSE t[1], clock))

SetCurrentSession ==
  \E id \in KnownIds : Call("setCurrentSession", <<id>>, setCurrentSession(store, id))

AppendMessage ==
  \E text \in Texts, isUser \in BOOLEAN, d \in {None} \cup {Some(x) : x \in Docs} :
    LET m == Message(text, isUser, clock)
    IN  Call("appendMessage", <<m, d>>, addMessageToCurrentSession(store, m, d, clock))

AttachDocument ==
  \E d \in Docs :
    Call("attachDocument", <<d>>, updateCurrentSessionSlides(store, d, clock))

DeleteSession ==
  \E id \in KnownIds : Call("deleteSession", <<id>>, deleteSession(store, id))

ClearAll == Call("clearAll", <<>>, clearAllSessions(store, clock))

\* The environment: the item is overwritten with something that is no session
\* array; the quota fills up or is freed; time passes.
CorruptStorage ==
  /\ store.item # CorruptItem
  /\ Call("corrupt", <<>>, Return([store EXCEPT !.item = CorruptItem], None))

ToggleQuota == Call("quota", <<>>, Return([store EXCEPT !.full = ~@], None))

Tick ==
  /\ steps < MaxSteps
  /\ clock' = clock + 1
  /\ steps' = steps + 1
  /\ UNCHANGED <<store, lastOp, prevOp, gem, ppt, uiVars>>

NextStore ==
  \/ ListSessions
  \/ CreateSession
  \/ SetCurrentSession
  \/ AppendMessage
  \/ AttachDocument
  \/ DeleteSession
  \/ ClearAll
  \/ CorruptStorage
  \/ ToggleQuota
  \/ Tick

SpecStore == InitStore /\ [][NextStore]_vars

\* ------------------------------------------------- generateSessionTitle alone
\* Length of the enumerated message texts.
MaxTextLen == 7

\* every text of up to MaxTextLen letters and spaces, and texts whose first five
\* words make 30, 31 and 39 characters
Text30 == <<"a","a","a","a","a","a"," ","b","b","b","b","b"," ","c","c","c","c","c"," ","d","d","d","d","d"," ","e","e","e","e","e"," ","f","f"," ","g">>
Text31 == <<"a","a","a","a","a","a"," ","b","b","b","b","b","b"," ","c","c","c","c","c"," ","d","d","d","d","d"," ","e","e","e","e","e"," ","f","f">>
TitleTexts == UNION {[1..n -> {"a", " "}] : n \in 0..MaxTextLen} \cup {Text30, Text31, LongText}

\* one call of generateSessionTitle on a freshly constructed store
DeriveTitle ==
  /\ steps = 0
  /\ \E text \in TitleTexts :
       Call("generateSessionTitle", <<text>>, Return(store, generateSessionTitle(text)))

SpecTitle == InitStore /\ [][DeriveTitle]_vars

\* ------------------------------------------------- generateSlides, step by step
\* The store as a construction over no item leaves it
FreshStore == ensureDefaultSession(Store(NoItem, NoSession, FALSE, 0), 0).st

InitGemini ==
  /\ gem = GemIdle
  /\ ppt = PptIdle
  /\ NoUi
  /\ store = FreshStore
  /\ clock = 0
  /\ steps = 0
  /\ lastOp = NoOp
  /\ prevOp = NoOp

\* generateSlides builds the prompt and awaits model.generateContent
GenerateSlidesCall ==
  /\ gem.pc = "idle"
  /\ gem' = [gem EXCEPT !.pc = "awaiting"]
  /\ UNCHANGED <<storeVars, uiVars, ppt>>

\* the upstream answers with a text built around a JSON object
UpstreamAnswersObject ==
  /\ gem.pc = "awaiting"
  /\ \E lead \in Leads, fenced \in BOOLEAN, body \in Bodies, trail \in Trails :
       gem' = [gem EXCEPT
                 !.pc = "answered",
                 !.upstream = UpstreamText(Compose(lead, fenced, body, trail)),
                 !.shape = Some([lead |-> lead, fenced |-> fenced, body |-> body,
                                 trail |-> trail])]
  /\ UNCHANGED <<storeVars, uiVars, ppt>>

\* the upstream answers with some other text
UpstreamAnswersText ==
  /\ gem.pc = "awaiting"
  /\ \E text \in RawTexts :
       gem' = [gem EXCEPT !.pc = "answered", !.upstream = UpstreamText(text)]
  /\ UNCHANGED <<storeVars, uiVars, ppt>>

\* the upstream call fails (network, key, quota)
UpstreamFails ==
  /\ gem.pc = "awaiting"
  /\ \E e \in UpstreamErrors :
       gem' = [gem EXCEPT !.pc = "answered", !.upstream = UpstreamError(e)]
  /\ UNCHANGED <<storeVars, uiVars, ppt>>

\* the rest of generateSlides: parse and return, or catch and throw
GenerateSlidesSettles ==
  /\ gem.pc = "answered"
  /\ gem' = [gem EXCEPT !.pc = "settled", !.result = generateSlides(gem.upstream)]
  /\ UNCHANGED <<storeVars, uiVars, ppt>>

NextGemini ==
  \/ GenerateSlidesCall
  \/ UpstreamAnswersObject
  \/ UpstreamAnswersText
  \/ UpstreamFails
  \/ GenerateSlidesSettles

SpecGemini == InitGemini /\ [][NextGemini]_vars

\* ------------------------------------------------------- the Home component
\* Steps of one behaviour of Spec.
MaxUiSteps == 6

ExamplePrompt == <<"C","r","e","a","t","e"," ","a"," ","5","-","s","l","i","d","e"," ","p","r","e","s","e","n","t","a","t","i","o","n"," ","a","b","o","u","t"," ","r","e","n","e","w","a","b","l","e"," ","e","n","e","r","g","y">>
CreatedPrefix == <<"I","'","v","e"," ","c","r","e","a","t","e","d"," ","a"," ","p","r","e","s","e","n","t","a","t","i","o","n"," ","w","i","t","h"," ">>
CreatedSuffix == <<" ","s","l","i","d","e","s","!"," ","Y","o","u"," ","c","a","n"," ","n","o","w"," ","p","r","e","v","i","e","w"," ","o","r"," ","d","o","w","n","l","o","a","d"," ","i","t",".">>
SorryMsg == <<"S","o","r","r","y",","," ","I"," ","e","n","c","o","u","n","t","e","r","e","d"," ","a","n"," ","e","r","r","o","r","."," ","P","l","e","a","s","e"," ","t","r","y"," ","a","g","a","i","n",".">>
\* the message of the exception localStorage.setItem throws
QuotaMsg == <<"T","h","e"," ","q","u","o","t","a"," ","h","a","s"," ","b","e","e","n"," ","e","x","c","e","e","d","e","d",".">>

RECURSIVE DigitsOf(_)
DigitsOf(n) == IF n < 10 THEN <<ToString(n)>> ELSE DigitsOf(n \div 10) \o <<ToString(n % 10)>>

\* what the upstream may settle a request of the page with
UiUpstreams == {UpstreamError(<<"f","e","t","c","h"," ","f","a","i","l","e","d">>), UpstreamText(ProseText),
                UpstreamText(Compose(<<>>, TRUE, Deck(<<JSlideA>>), <<>>))}

\* [...messages].reverse().find(msg => !msg.isUser && msg.slides): the slides of
\* the last assistant message that has some, <<>> for undefined
LastAiSlidesOfLastReply(messages) ==
  LET hits == {k \in 1..Len(messages) : ~messages[k].isUser}
  IN  IF hits = {} THEN None ELSE messages[Max(hits)].slides

LastAiSlides(messages) ==
  LET hits == {k \in 1..Len(messages) : ~messages[k].isUser /\ messages[k].slides # None}
  IN  IF hits = {} THEN None ELSE messages[Max(hits)].slides

MessagesOf(session) == IF session = None THEN <<>> ELSE session[1].messages

\* which of the three screens Home renders
ErrorScreen == ui.apiError
InitialScreen == ~ui.apiError /\ Len(ui.messages) = 0 /\ ~ui.isLoading
MainScreen == ~ui.apiError /\ ~InitialScreen

\* One step of the page: a handler, or the rest of one after an await
UiStep(name, arg, threw) ==
  /\ steps < MaxUiSteps
  /\ steps' = steps + 1
  /\ lastOp' = [name |-> name, arg |-> arg, threw |-> threw, ret |-> None, pre |-> store]
  /\ prevOp' = [lastOp EXCEPT !.pre = NoOp.pre, !.ret = None]
  /\ UNCHANGED <<clock, gem, ppt>>

\* The rest of a handler after its await: the promise it awaits settles
\* whatever else has happened on the page, so no step budget holds it back.
Continuation(name, arg, threw) ==
  /\ steps' = IF steps < MaxUiSteps THEN steps + 1 ELSE steps
  /\ lastOp' = [name |-> name, arg |-> arg, threw |-> threw, ret |-> None, pre |-> store]
  /\ prevOp' = [lastOp EXCEPT !.pre = NoOp.pre, !.ret = None]
  /\ UNCHANGED <<clock, gem, ppt>>

Init ==
  /\ gem = GemIdle
  /\ ppt = PptIdle
  /\ clock = 0
  /\ steps = 0
  /\ prevOp = NoOp
  /\ \E item \in {NoItem, Item(<<OldSession>>), Item(<<RetriedSession, OldSession>>)} :
       LET before == Store(item, NoSession, FALSE, 0)
           out == ensureDefaultSession(before, 0)
       IN  /\ store = out.st
           /\ lastOp = Op("construct", <<>>, out, before)
  /\ \E apiKey \in BOOLEAN : ui = Unmounted(apiKey)
  /\ timers = <<>>
  /\ gens = <<>>
  /\ exports = <<>>

\* the effect of the first render
Mount ==
  /\ ~ui.mounted
  /\ UiStep("mount", <<>>, FALSE)
  /\ IF ~ui.apiKey
     THEN ui' = [ui EXCEPT !.mounted = TRUE, !.apiError = TRUE]
     ELSE LET currentSession == getCurrentSession(store)
              lastAi == LastAiSlides(MessagesOf(currentSession))
          IN  ui' = [ui EXCEPT
                       !.mounted = TRUE,
                       !.importing = TRUE,
                       !.chatSessions = getSessions(store),
                       !.currentSession = currentSession,
                       !.messages = IF currentSession # None THEN currentSession[1].messages ELSE @,
                       !.slides = IF lastAi # None THEN lastAi[1] ELSE @]
  /\ UNCHANGED <<store, timers, gens, exports>>

\* import('./lib/gemini-client') resolves, or rejects (no model could be set up)
ServiceLoads ==
  /\ ui.importing
  /\ UiStep("serviceLoads", <<>>, FALSE)
  /\ \E ok \in BOOLEAN :
       ui' = [ui EXCEPT !.importing = FALSE, !.geminiService = ok, !.apiError = ~ok]
  /\ UNCHANGED <<store, timers, gens, exports>>

\* onChange of the text input
TypeInput ==
  /\ (InitialScreen /\ ui.geminiService) \/ (MainScreen /\ ~ui.isLoading /\ ui.geminiService)
  /\ ui.inputText # ShortText
  /\ UiStep("type", <<ShortText>>, FALSE)
  /\ ui' = [ui EXCEPT !.inputText = ShortText]
  /\ UNCHANGED <<store, timers, gens, exports>>

\* The render a handler closed over: what it reads of the state
Closure == [inputText |-> ui.inputText, isLoading |-> ui.isLoading,
            geminiService |-> ui.geminiService, slides |-> ui.slides]

\* the guard of handleSend
SendReturnsEarly(c) == Trim(c.inputText) = <<>> \/ c.isLoading \/ ~c.geminiService

\* handleSend from the stored prompt to its await; added is the outcome of
\* adding the prompt, updatedSession the current session read back
Sending(name, c, userMessage, added, updatedSession) ==
  /\ UiStep(name, <<c.inputText>>, added.threw)
  /\ store' = added.st
  /\ IF added.threw
     THEN UNCHANGED <<ui, gens>>
     ELSE /\ ui' = [ui EXCEPT !.currentSession = updatedSession,
                              !.messages = MessagesOf(updatedSession),
                              !.inputText = <<>>,
                              !.isLoading = TRUE]
          \* target: the session the prompt was stored in, if it was stored
          /\ gens' = Append(gens, [prompt |-> c.inputText, prior |-> c.slides,
                                   userMessage |-> userMessage,
                                   target |-> IF updatedSession = None THEN None
                                              ELSE Some(updatedSession[1].id)])

SendingTo(name, c, userMessage, added) ==
  Sending(name, c, userMessage, added, getCurrentSession(added.st))

\* handleSend up to its await, run from the render c
HandleSend(name, c) ==
  SendingTo(name, c, Message(c.inputText, TRUE, clock),
            addMessageToCurrentSession(store, Message(c.inputText, TRUE, clock), None, clock))

\* the Send button or the Enter key
ClickSend ==
  /\ InitialScreen \/ MainScreen
  /\ ~SendReturnsEarly(Closure)
  /\ HandleSend("send", Closure)
  /\ UNCHANGED <<timers, exports>>

\* an example prompt button: setInputText(prompt); setTimeout(() => handleSend(), 100)
ClickExample ==
  /\ InitialScreen /\ ui.geminiService
  /\ UiStep("example", <<ExamplePrompt>>, FALSE)
  /\ ui' = [ui EXCEPT !.inputText = ExamplePrompt]
  /\ timers' = Append(timers, Closure)
  /\ UNCHANGED <<store, gens, exports>>

\* the oldest timer fires: handleSend of the render the button was clicked in
TimerFires ==
  /\ timers # <<>>
  /\ timers' = Tail(timers)
  /\ IF SendReturnsEarly(Head(timers))
     THEN /\ UiStep("timerReturns", <<>>, FALSE)
          /\ UNCHANGED <<store, ui, gens>>
     ELSE HandleSend("timerSends", Head(timers))
  /\ UNCHANGED exports

Remove(q, k) == SubSeq(q, 1, k - 1) \o SubSeq(q, k + 1, Len(q))

\* handleSend with setIsLoading(false) as the last statement of the try and
\* catch blocks instead of a finally block
ReplyWithoutFinally(k, name, message, newSlides, last, listed) ==
  /\ Continuation(name, <<gens[k], message>>, last.threw)
  /\ gens' = Remove(gens, k)
  /\ store' = last.st
  /\ ui' = [ui EXCEPT
              !.slides = IF newSlides = None THEN @ ELSE newSlides[1],
              !.currentSession = IF last.threw THEN @ ELSE getCurrentSession(last.st),
              !.messages = IF last.threw THEN @ ELSE MessagesOf(getCurrentSession(last.st)),
              !.chatSessions = IF listed THEN getSessions(last.st) ELSE @,
              !.isLoading = IF last.threw THEN @ ELSE FALSE]
  /\ UNCHANGED <<timers, exports>>

\* the end of handleSend: the session is read back unless the store threw, and
\* the finally block clears isLoading
Reply(k, name, message, newSlides, last, listed) ==
  /\ Continuation(name, <<gens[k], message>>, last.threw)
  /\ gens' = Remove(gens, k)
  /\ store' = last.st
  /\ ui' = [ui EXCEPT
              !.slides = IF newSlides = None THEN @ ELSE newSlides[1],
              !.currentSession = IF last.threw THEN @ ELSE getCurrentSession(last.st),
              !.messages = IF last.threw THEN @ ELSE MessagesOf(getCurrentSession(last.st)),
              !.chatSessions = IF listed THEN getSessions(last.st) ELSE @,
              !.isLoading = FALSE]
  /\ UNCHANGED <<timers, exports>>

ErrorMessage(caught) ==
  [text |-> IF caught = <<>> THEN SorryMsg ELSE caught,
   isUser |-> FALSE, timestamp |-> clock, slides |-> None]

\* the catch block of handleSend, entered from the store st with the error caught
ReplyError(k, name, st, errorMessage, newSlides) ==
  Reply(k, name, errorMessage, newSlides,
        addMessageToCurrentSession(st, errorMessage, None, clock), FALSE)

AiMessage(newSlides) ==
  [text |-> CreatedPrefix \o DigitsOf(Len(newSlides)) \o CreatedSuffix,
   isUser |-> FALSE, timestamp |-> clock, slides |-> Some(newSlides)]

\* the try block of handleSend after the await; stored is the outcome of adding
\* the assistant message
ReplySlides(k, aiMessage, newSlides, stored) ==
  IF stored.threw
  THEN ReplyError(k, "replyNotStored", stored.st, ErrorMessage(QuotaMsg), Some(newSlides))
  ELSE Reply(k, "generationDone", aiMessage, Some(newSlides), stored, TRUE)

ReplyStore(k, aiMessage, newSlides) ==
  ReplySlides(k, aiMessage, newSlides,
              addMessageToCurrentSession(store, aiMessage, Some(newSlides), clock))

\* r is what generateSlides settled with
Settle(k, r) ==
  IF r.threw THEN ReplyError(k, "generationFailed", store, ErrorMessage(r.message), None)
  ELSE ReplyStore(k, AiMessage(r.ret), r.ret)

\* handleSend after its await: generateSlides has settled the k-th request
GenerationSettles ==
  \E k \in 1..Len(gens), upstream \in UiUpstreams : Settle(k, generateSlides(upstream))

\* New Chat in the menu
HandleNewChat ==
  /\ MainScreen
  /\ LET created == createNewSession(store, DefaultTitle, clock)
     IN  /\ UiStep("newChat", <<>>, created.threw)
         /\ store' = created.st
         /\ ui' = IF created.threw THEN ui
                  ELSE [ui EXCEPT !.currentSession = Some(created.ret),
                                  !.messages = <<>>,
                                  !.slides = <<>>,
                                  !.chatSessions = getSessions(created.st)]
  /\ UNCHANGED <<timers, gens, exports>>

\* a row of the history list
HandleSelectSession ==
  /\ MainScreen
  /\ \E i \in 1..Len(ui.chatSessions) :
       LET sessionId == ui.chatSessions[i].id
           st1 == setCurrentSession(store, sessionId).st
           session == getCurrentSession(st1)
           lastAi == LastAiSlides(MessagesOf(session))
       IN  /\ UiStep("select", <<sessionId>>, FALSE)
           /\ store' = st1
           /\ ui' = [ui EXCEPT !.currentSession = session,
                               !.messages = MessagesOf(session),
                               !.slides = IF lastAi = None THEN <<>> ELSE lastAi[1]]
  /\ UNCHANGED <<timers, gens, exports>>

\* the delete button of a row
HandleDeleteSession ==
  /\ MainScreen
  /\ \E i \in 1..Len(ui.chatSessions) :
       LET sessionId == ui.chatSessions[i].id
           deleted == deleteSession(store, sessionId)
           sessions == getSessions(deleted.st)
           newCurrentSession == IF sessions = <<>> THEN None ELSE Some(sessions[1])
           wasCurrent == ui.currentSession # None /\ ui.currentSession[1].id = sessionId
       IN  /\ UiStep("delete", <<sessionId>>, deleted.threw)
           /\ store' = deleted.st
           /\ ui' = IF deleted.threw THEN ui
                    ELSE IF wasCurrent
                    THEN [ui EXCEPT !.chatSessions = sessions,
                                    !.currentSession = newCurrentSession,
                                    !.messages = MessagesOf(newCurrentSession),
                                    !.slides = <<>>]
                    ELSE [ui EXCEPT !.chatSessions = sessions]
  /\ UNCHANGED <<timers, gens, exports>>

\* Clear All History: the store is cleared, no state of the component is set
ClickClearAll ==
  /\ MainScreen
  /\ Len(ui.chatSessions) > 0
  /\ LET cleared == clearAllSessions(store, clock)
     IN  /\ UiStep("clearAll", <<>>, cleared.threw)
         /\ store' = cleared.st
  /\ UNCHANGED <<ui, timers, gens, exports>>

\* Download PPTX: handleDownload up to its await
HandleDownload ==
  /\ MainScreen
  /\ Len(ui.slides) > 0
  /\ ~ui.isLoading
  /\ UiStep("download", <<>>, FALSE)
  /\ ui' = [ui EXCEPT !.isLoading = TRUE]
  /\ exports' = Append(exports, ui.slides)
  /\ UNCHANGED <<store, timers, gens>>

\* handleDownload after its await: generatePresentation resolved or rejected
ExportSettles ==
  /\ \E k \in 1..Len(exports), ok \in BOOLEAN :
       /\ UiStep("exportSettles", <<ok>>, FALSE)
       /\ exports' = Remove(exports, k)
  /\ ui' = [ui EXCEPT !.isLoading = FALSE]
  /\ UNCHANGED <<store, timers, gens>>

\* the quota of localStorage fills up or is freed
QuotaChanges ==
  /\ ui.mounted
  /\ UiStep("quota", <<>>, FALSE)
  /\ store' = [store EXCEPT !.full = ~@]
  /\ UNCHANGED uiVars

\* time passes
TimePasses ==
  /\ ui.mounted
  /\ steps < MaxUiSteps
  /\ steps' = steps + 1
  /\ clock' = clock + 1
  /\ UNCHANGED <<store, lastOp, prevOp, gem, ppt, uiVars>>

Next ==
  \/ Mount
  \/ ServiceLoads
  \/ TypeInput
  \/ ClickSend
  \/ ClickExample
  \/ TimerFires
  \/ GenerationSettles
  \/ HandleNewChat
  \/ HandleSelectSession
  \/ HandleDeleteSession
  \/ ClickClearAll
  \/ HandleDownload
  \/ ExportSettles
  \/ QuotaChanges
  \/ TimePasses

Spec == Init /\ [][Next]_vars

\* A request leaves the requests in flight. GenerationSettles is the only
\* action of Next that removes one, and it can run whenever one is in flight.
RequestSettles == \E k \in 1..Len(gens) : gens' = Remove(gens, k)

\* The promise of every generateSlides call settles: fetch resolves or rejects,
\* and the continuation of handleSend is then run by the event loop.
SpecLive == Init /\ [][Next]_vars /\ WF_gens(RequestSettles)

\* ------------------------------------------------------- generatePresentation
\* Slides of one document handed to generatePresentation.
MaxSlides == 3

LayoutTitleContent == <<"T","I","T","L","E","_","C","O","N","T","E","N","T">>
LayoutSectionHeader == <<"S","E","C","T","I","O","N","_","H","E","A","D","E","R">>
LayoutOther == <<"T","W","O","_","C","O","L","U","M","N">>
BulletMark == "bullet"

\* percentages are JavaScript numbers; they are kept here as exact fractions
RECURSIVE GCD(_, _)
GCD(a, b) == IF b = 0 THEN a ELSE GCD(b, a % b)
Ratio(a, b) == [num |-> a \div GCD(a, b), den |-> b \div GCD(a, b)]
Whole(k) == [num |-> k, den |-> 1]
RatPlus(x, y) == Ratio(x.num * y.den + y.num * x.den, x.den * y.den)
RatTimes(x, y) == Ratio(x.num * y.num, x.den * y.den)
RatLeq(x, y) == x.num * y.den <= y.num * x.den

InitializingMsg == <<"I","n","i","t","i","a","l","i","z","i","n","g"," ","p","r","e","s","e","n","t","a","t","i","o","n",".",".",".">>
CreatingMsg(k, n) == <<"C","r","e","a","t","i","n","g"," ","s","l","i","d","e"," ">> \o DigitsOf(k) \o <<" ","o","f"," ">> \o DigitsOf(n) \o <<".",".",".">>
FinalizingMsg == <<"F","i","n","a","l","i","z","i","n","g"," ","p","r","e","s","e","n","t","a","t","i","o","n",".",".",".">>
ReadyMsg == <<"P","r","e","s","e","n","t","a","t","i","o","n"," ","r","e","a","d","y","!">>
PdfStartedMsg == <<"P","D","F"," ","d","o","w","n","l","o","a","d"," ","s","t","a","r","t","e","d","!">>
PptxFallbackMsg == <<"P","P","T","X"," ","d","o","w","n","l","o","a","d","e","d"," ","(","P","D","F"," ","n","o","t"," ","a","v","a","i","l","a","b","l","e",")">>
PptxStartedMsg == <<"P","P","T","X"," ","d","o","w","n","l","o","a","d"," ","s","t","a","r","t","e","d","!">>
ExportErrorMsg == <<"E","r","r","o","r"," ","g","e","n","e","r","a","t","i","n","g"," ","p","r","e","s","e","n","t","a","t","i","o","n","."," ","P","l","e","a","s","e"," ","t","r","y"," ","a","g","a","i","n",".">>
NotInBrowserMsg == <<"P","r","e","s","e","n","t","a","t","i","o","n"," ","g","e","n","e","r","a","t","i","o","n"," ","i","s"," ","o","n","l","y"," ","a","v","a","i","l","a","b","l","e"," ","i","n"," ","t","h","e"," ","b","r","o","w","s","e","r">>
LibraryErrorMsg == <<"p","p","t","x","g","e","n","j","s"," ","f","a","i","l","e","d">>
TypeErrorMsg == <<"C","a","n","n","o","t"," ","r","e","a","d"," ","p","r","o","p","e","r","t","i","e","s"," ","o","f"," ","u","n","d","e","f","i","n","e","d">>
DownloadStarted == <<"d","o","w","n","l","o","a","d","-","s","t","a","r","t","e","d">>
BlobUrl == <<"b","l","o","b",":","1">>

\* a GenerationProgress without, and with, the slide counters
Progress(step, message, percentage) ==
  [step |-> step, message |-> message, percentage |-> percentage,
   currentSlide |-> None, totalSlides |-> None]
SlideProgressFromNext(index, n) ==
  [step |-> "creating_slides", message |-> CreatingMsg(index + 1, n),
   percentage |-> RatPlus(Whole(30), RatTimes(Ratio(index + 1, n), Whole(50))),
   currentSlide |-> Some(index + 1), totalSlides |-> Some(n)]
SlideProgress(index, n) ==
  [step |-> "creating_slides", message |-> CreatingMsg(index + 1, n),
   percentage |-> RatPlus(Whole(30), RatTimes(Ratio(index, n), Whole(50))),
   currentSlide |-> Some(index + 1), totalSlides |-> Some(n)]

\* onProgress?.(progress): nothing is emitted when no callback was passed
Emit(events, onProgress, progress) == IF onProgress THEN Append(events, progress) ELSE events

\* slide.addText(text, options): what the text element shows and how
TextElement(text, role) == [text |-> text, role |-> role]

\* slideData.title, slideData.content, slideData.layout of a parsed slide
FieldOf(slideData, key) == GetMember(slideData, key)

\* x.length of a JavaScript value: the read throws on undefined and null, and is
\* undefined on values that are neither strings nor arrays
LengthThrows(x) == x = None \/ x[1].t = "null"
LengthOf(x) == IF x[1].t \in {"str", "arr"} THEN Len(x[1].v) ELSE 0

\* content[0] of an array or of a string, as the text addText is given
FirstOf(x) == IF x[1].t = "arr" THEN Some(x[1].v[1].v) ELSE Some(<<x[1].v[1]>>)

\* `${point}` of every element of content, as a bulleted row
BulletRows(content) ==
  [k \in 1..Len(content) |-> TextElement(Some(<<BulletMark, " ">> \o content[k].v), "bullet")]

\* the layout the switch of createSimpleSlide takes
LayoutCase(slideData) ==
  LET layout == FieldOf(slideData, LayoutKey)
  IN  IF layout # None /\ layout[1] = JStr(LayoutTitle) THEN "TITLE"
      ELSE IF layout # None /\ layout[1] = JStr(LayoutSectionHeader) THEN "SECTION_HEADER"
      ELSE "default"

TitleOf(slideData) ==
  IF FieldOf(slideData, TitleKey) = None THEN None
  ELSE Some(FieldOf(slideData, TitleKey)[1].v)

\* createSimpleSlide for the two layouts that show a title and one line
TitleAndFirstLine(title, content) ==
  IF LengthThrows(content) THEN Rejected(TypeErrorMsg)
  ELSE IF LengthOf(content) > 0
  THEN Resolved(<<TextElement(title, "title"), TextElement(FirstOf(content), "subtitle")>>)
  ELSE Resolved(<<TextElement(title, "title")>>)

\* createSimpleSlide for every other layout: content.forEach exists on arrays only
TitleAndBullets(title, content, index) ==
  IF content = None \/ content[1].t # "arr" THEN Rejected(TypeErrorMsg)
  ELSE Resolved(<<TextElement(title, "title")>> \o BulletRows(content[1].v)
                \o <<TextElement(Some(DigitsOf(index + 1)), "number")>>)

\* the text elements createSimpleSlide adds to the slide, or the exception
createSimpleSlideKnownLayouts(slideData, index) ==
  IF FieldOf(slideData, LayoutKey) = Some(JStr(LayoutTitleContent))
  THEN TitleAndBullets(TitleOf(slideData), FieldOf(slideData, ContentKey), index)
  ELSE IF LayoutCase(slideData) = "default" THEN Rejected(TypeErrorMsg)
  ELSE TitleAndFirstLine(TitleOf(slideData), FieldOf(slideData, ContentKey))

createSimpleSlide(slideData, index) ==
  IF LayoutCase(slideData) = "default"
  THEN TitleAndBullets(TitleOf(slideData), FieldOf(slideData, ContentKey), index)
  ELSE TitleAndFirstLine(TitleOf(slideData), FieldOf(slideData, ContentKey))

\* the catch block of generatePresentation: the error event, then throw error
ExportFails(p, message) ==
  [p EXCEPT !.pc = "done",
            !.events = Emit(@, p.onProgress, Progress("error", ExportErrorMsg, Whole(0))),
            !.result = Rejected(message)]

\* the return of generatePresentation after its complete event
ExportReturns(p, message, ret) ==
  [p EXCEPT !.pc = "done",
            !.events = Emit(@, p.onProgress, Progress("complete", message, Whole(100))),
            !.result = Resolved(ret)]

\* a fault of the library: pptx.addSlide or slide.addText throws at slide at
NoFault == [at |-> 0, in |-> "addSlide"]
Faults(n) == {NoFault} \cup [at : 1..n, in : {"addSlide", "addText"}]

\* the for loop over slides from index on; error is what it threw, if anything
RECURSIVE CreateSlides(_, _, _)
RECURSIVE AfterProgress(_, _, _, _)
CreateSlides(p, index, fault) ==
  IF index >= Len(p.slides) THEN [p |-> p, error |-> None]
  ELSE IF fault.at = index + 1 /\ fault.in = "addSlide"
  THEN [p |-> p, error |-> Some(LibraryErrorMsg)]
  ELSE AfterProgress([p EXCEPT !.events = Emit(@, p.onProgress,
                                               SlideProgress(index, Len(p.slides)))],
                     index, fault, createSimpleSlide(p.slides[index + 1], index))

\* made is the outcome of createSimpleSlide for the slide at index
AfterProgress(p, index, fault, made) ==
  IF fault.at = index + 1 THEN [p |-> p, error |-> Some(LibraryErrorMsg)]
  ELSE IF made.threw THEN [p |-> p, error |-> Some(made.message)]
  ELSE CreateSlides([p EXCEPT !.rendered = Append(@, made.ret)], index + 1, fault)

\* after the loop: the finalizing event and the file name, up to the await of
\* pptx.write or pptx.writeFile
AfterSlides(looped, now) ==
  IF looped.error # None THEN ExportFails(looped.p, looped.error[1])
  ELSE [looped.p EXCEPT !.pc = "writing", !.timestamp = now,
                        !.events = Emit(@, looped.p.onProgress,
                                        Progress("finalizing", FinalizingMsg, Whole(90)))]

\* a file the browser was told to save
File(p, extension) == [timestamp |-> p.timestamp, extension |-> extension,
                       slides |-> p.rendered]

\* all sequences over S of length 0..n
SeqsUpTo(S, n) == UNION {[1..k -> S] : k \in 0..n}

JSlideBullets == JSlide(<<"B">>, <<"y">>, LayoutTitleContent)
JSlideSection == JSlide(<<"C">>, <<"z">>, LayoutSectionHeader)
JSlideTextBullets == JObj(<< <<TitleKey, JStr(<<"A">>)>>, <<ContentKey, JStr(<<"x">>)>>,
                             <<LayoutKey, JStr(LayoutTitleContent)>> >>)
JSlideNoContent == JObj(<< <<TitleKey, JStr(<<"A">>)>>, <<LayoutKey, JStr(LayoutTitle)>> >>)
JSlideOtherLayout == JSlide(<<"D">>, <<"w">>, LayoutOther)

\* a slide with one content line per element of lines, and one without a layout
JSlideLines(title, lines, layout) ==
  JObj(<< <<TitleKey, JStr(title)>>,
          <<ContentKey, JArr([k \in 1..Len(lines) |-> JStr(<<lines[k]>>)])>>,
          <<LayoutKey, JStr(layout)>> >>)
JSlideNoLayout == JObj(<< <<TitleKey, JStr(<<"N">>)>>, <<ContentKey, JArr(<<JStr(<<"p">>)>>)>> >>)

\* the documents generatePresentation is called with
ExportDocs ==
  SeqsUpTo({JSlideA, JSlideBullets}, MaxSlides)
    \cup {<<JSlideA, JSlideTextBullets>>, <<JSlideNoContent>>, <<JSlideSection, JSlideOtherLayout>>,
          <<JSlideNoTitle>>, <<JSlideTextContent>>,
          <<JSlideLines(<<"T">>, <<"p", "q">>, LayoutTitle),
            JSlideLines(<<"S">>, <<"p", "q">>, LayoutSectionHeader)>>,
          <<JSlideLines(<<"T">>, <<>>, LayoutTitle),
            JSlideLines(<<"O">>, <<"p", "q", "r">>, LayoutOther)>>,
          <<JSlideLines(<<"E">>, <<>>, LayoutTitleContent), JSlideNoLayout>>}

InitExport ==
  /\ gem = GemIdle
  /\ ppt = PptIdle
  /\ NoUi
  /\ store = FreshStore
  /\ clock = 0
  /\ steps = 0
  /\ lastOp = NoOp
  /\ prevOp = NoOp

\* generatePresentation(slides, forPreview, format, onProgress) up to its first
\* await; outside a browser it throws before the try block
GeneratePresentationCall ==
  /\ ppt.pc = "idle"
  /\ \E slides \in ExportDocs, forPreview \in BOOLEAN, format \in {"pptx", "pdf"},
        window \in BOOLEAN, onProgress \in BOOLEAN :
       ppt' = IF window
              THEN [ppt EXCEPT !.pc = "importing", !.slides = slides,
                               !.forPreview = forPreview, !.format = format,
                               !.onProgress = onProgress]
              ELSE [ppt EXCEPT !.pc = "done", !.slides = slides, !.window = FALSE,
                               !.forPreview = forPreview, !.format = format,
                               !.onProgress = onProgress,
                               !.result = Rejected(NotInBrowserMsg)]
  /\ UNCHANGED <<storeVars, gem, uiVars>>

\* import('pptxgenjs') settles; when it resolves the slides are created
LibraryLoads ==
  /\ ppt.pc = "importing"
  /\ \E ok \in BOOLEAN, fault \in Faults(Len(ppt.slides)) :
       ppt' = IF ~ok THEN ExportFails(ppt, LibraryErrorMsg)
              ELSE AfterSlides(
                     CreateSlides([ppt EXCEPT !.events = Emit(@, ppt.onProgress,
                                     Progress("initializing", InitializingMsg, Whole(10)))],
                                  0, fault),
                     clock)
  /\ UNCHANGED <<storeVars, gem, uiVars>>

\* as WriteSettles, but a failed PDF write is not recovered
WriteSettlesNoFallback ==
  /\ ppt.pc = "writing"
  /\ \E ok \in BOOLEAN :
       ppt' = IF ok
              THEN IF ppt.forPreview
                   THEN ExportReturns([ppt EXCEPT !.urls = @ + 1], ReadyMsg, BlobUrl)
                   ELSE ExportReturns([ppt EXCEPT !.files = Append(@, File(ppt, ppt.format))],
                                      PptxStartedMsg, DownloadStarted)
              ELSE ExportFails([ppt EXCEPT !.pdfFailed = ~ppt.forPreview /\ ppt.format = "pdf"],
                               LibraryErrorMsg)
  /\ UNCHANGED <<storeVars, gem, uiVars>>

\* pptx.write or pptx.writeFile settles
WriteSettles ==
  /\ ppt.pc = "writing"
  /\ \E ok \in BOOLEAN :
       ppt' = IF ppt.forPreview
              THEN IF ok THEN ExportReturns([ppt EXCEPT !.urls = @ + 1], ReadyMsg, BlobUrl)
                   ELSE ExportFails(ppt, LibraryErrorMsg)
              ELSE IF ppt.format = "pdf"
              THEN IF ok THEN ExportReturns([ppt EXCEPT !.files = Append(@, File(ppt, "pdf"))],
                                            PdfStartedMsg, DownloadStarted)
                   ELSE [ppt EXCEPT !.pc = "fallback", !.pdfFailed = TRUE]
              ELSE IF ok THEN ExportReturns([ppt EXCEPT !.files = Append(@, File(ppt, "pptx"))],
                                            PptxStartedMsg, DownloadStarted)
                   ELSE ExportFails(ppt, LibraryErrorMsg)
  /\ UNCHANGED <<storeVars, gem, uiVars>>

\* the pptx.writeFile of the catch (pdfError) block settles
FallbackSettles ==
  /\ ppt.pc = "fallback"
  /\ \E ok \in BOOLEAN :
       ppt' = IF ok THEN ExportReturns([ppt EXCEPT !.files = Append(@, File(ppt, "pptx"))],
                                       PptxFallbackMsg, DownloadStarted)
              ELSE ExportFails([ppt EXCEPT !.fallbackFailed = TRUE], LibraryErrorMsg)
  /\ UNCHANGED <<storeVars, gem, uiVars>>

NextExport ==
  \/ GeneratePresentationCall
  \/ LibraryLoads
  \/ WriteSettles
  \/ FallbackSettles

SpecExport == InitExport /\ [][NextExport]_vars

\* ------------------------------------------------------ session store claims
StoreOps == {"listSessions", "createSession", "setCurrentSession", "appendMessage",
             "attachDocument", "deleteSession", "clearAll"}

SessionIds(st) == {getSessions(st)[i].id : i \in 1..Len(getSessions(st))}

\* createSession(t) and then appendMessage(m) were the last two calls and both
\* returned normally
C1_Case ==
  /\ lastOp.name = "appendMessage" /\ ~lastOp.threw /\ lastOp.arg[2] = None
  /\ prevOp.name = "createSession" /\ ~prevOp.threw

\* C1 as stated: after createSession(t); appendMessage(m), listSessions() holds a
\* session with exactly [m] whose title is t, or the title derived from m.text
\* when t is omitted.
C1_TitleIsGivenOrDerived ==
  C1_Case =>
    LET t == prevOp.arg[1]
        m == lastOp.arg[1]
    IN  \E s \in Range(getSessions(store)) :
          /\ s.messages = <<m>>
          /\ s.title = IF t = None THEN generateSessionTitle(m.text) ELSE t[1]

\* C1 amended: after createSession(t); appendMessage(m), both returned normally,
\* listSessions() holds a session with exactly [m]; its title is the one derived
\* from m.text when m is user-authored, and otherwise t, or the default title
\* when t is omitted.
C1_RoundTrip ==
  C1_Case =>
    LET t == prevOp.arg[1]
        m == lastOp.arg[1]
    IN  \E s \in Range(getSessions(store)) :
          /\ s.messages = <<m>>
          /\ s.title = IF m.isUser THEN generateSessionTitle(m.text)
                       ELSE IF t = None THEN DefaultTitle ELSE t[1]

C1_Witness ==
  /\ C1_Case
  /\ prevOp.arg[1] = Some(DeckTitle)
  /\ lastOp.arg[1].isUser
  /\ lastOp.arg[1].text = LongText
  /\ \E s \in Range(getSessions(store)) :
        s.messages = <<lastOp.arg[1]>> /\ Len(s.title) = TitleMax + Len(Ellipsis)

\* C2: appendMessage(m) with no current session creates a session titled from
\* m.text at the front of the collection, makes it current, and the session
\* holds exactly the appended message.
C2_ImplicitSession ==
  (lastOp.name = "appendMessage" /\ ~lastOp.threw /\ lastOp.pre.cur = NoSession) =>
    LET m == lastOp.arg[1]
        d == lastOp.arg[2]
        before == getSessions(lastOp.pre)
        after == getSessions(store)
    IN  /\ Len(after) = Len(before) + 1
        /\ Tail(after) = before
        /\ after[1].id \notin SessionIds(lastOp.pre)
        /\ after[1].title = generateSessionTitle(m.text)
        /\ after[1].messages = <<WithSlides(m, d)>>
        /\ store.cur = after[1].id
        /\ getCurrentSession(store) = Some(after[1])

C2_Witness ==
  /\ lastOp.name = "appendMessage" /\ ~lastOp.threw /\ lastOp.pre.cur = NoSession
  /\ lastOp.arg[2] = None
  /\ ~lastOp.arg[1].isUser
  /\ prevOp.name = "deleteSession"
  /\ getCurrentSession(store) # None
  /\ getCurrentSession(store)[1].messages = <<lastOp.arg[1]>>

\* C3 as stated: setCurrentSession(id) with an id of no session leaves
\* getCurrentSession() as it was, and the next appendMessage still reaches a
\* session.
C3_UnknownIdIsNoOp ==
  /\ (lastOp.name = "setCurrentSession" /\ lastOp.arg[1] \notin SessionIds(lastOp.pre)) =>
       getCurrentSession(store) = getCurrentSession(lastOp.pre)
  /\ (/\ lastOp.name = "appendMessage" /\ ~lastOp.threw
      /\ prevOp.name = "setCurrentSession"
      /\ prevOp.arg[1] \notin SessionIds(lastOp.pre)) =>
       \E s \in Range(getSessions(store)) :
         s.messages # <<>> /\ s.messages[Len(s.messages)] = WithSlides(lastOp.arg[1], lastOp.arg[2])

\* C4 as stated: no store operation throws, and listSessions() over a corrupt
\* item returns the empty sequence.
C4_NoFailurePropagates ==
  lastOp.name \in StoreOps =>
    /\ ~lastOp.threw
    /\ (lastOp.name = "listSessions" /\ lastOp.pre.item.kind # "json") => lastOp.ret = <<>>

\* ------------------------------------------------------ Gemini client claims
\* the upstream call succeeded but its text does not parse to a slides sequence
UnparseableAnswer == gem.upstream.kind = "text" /\ parseResponse(gem.upstream.text).threw

\* C5 as stated: an unparseable answer makes generateSlides fail with the parse
\* error, which the caller can tell from the generation error, and the
\* generation error is reported only when the upstream call failed.
C5_ParseErrorIsDistinct ==
  gem.pc = "settled" =>
    /\ UnparseableAnswer => (gem.result.threw /\ gem.result.message # GenFailMsg)
    /\ (gem.result.threw /\ gem.result.message = GenFailMsg) => gem.upstream.kind = "error"

\* C6: when the upstream call fails, generateSlides fails with the fixed retry
\* message, whatever the upstream error holds.
C6_FixedRetryMessage ==
  (gem.pc = "settled" /\ gem.upstream.kind = "error") =>
    gem.result = Rejected(GenFailMsg)

C6_Witness ==
  /\ gem.pc = "settled"
  /\ gem.upstream.kind = "error"
  /\ gem.upstream.error # GenFailMsg
  /\ gem.result.threw

\* a slide as the Slide Document Model wants it: a title that is a string and a
\* content that is a sequence
ValidSlide(v) ==
  /\ v.t = "obj"
  /\ GetMember(v, TitleKey) # None /\ GetMember(v, TitleKey)[1].t = "str"
  /\ GetMember(v, ContentKey) # None /\ GetMember(v, ContentKey)[1].t = "arr"

\* C7 as stated: generateSlides never returns a document holding a slide with a
\* missing title or a content that is no sequence.
C7_ReturnsOnlyValidDocuments ==
  (gem.pc = "settled" /\ ~gem.result.threw) =>
    \A k \in 1..Len(gem.result.ret) : ValidSlide(gem.result.ret[k])

\* C8 as stated: a text made of a lead, an optional code fence, one well-formed
\* object holding a slides sequence and a trail yields that slides sequence.
C8_ExtractsTheObject ==
  (gem.pc = "settled" /\ gem.shape # None /\ gem.shape[1].body \in DeckBodies) =>
    gem.result = Resolved(GetMember(gem.shape[1].body, SlidesKey)[1].v)

\* ------------------------------------------------------------- page claims
\* C9: a generation attempt that failed leaves, in the transcript of the session
\* its prompt was stored in, the prompt directly followed by one assistant
\* message without slides, which is the last message of that transcript.
C9_FailureIsRecorded ==
  lastOp.name = "generationFailed" =>
    LET g == lastOp.arg[1]
        e == lastOp.arg[2]
    IN  /\ g.target # None
        /\ \E s \in Range(getSessions(store)) :
             /\ s.id = g.target[1]
             /\ Len(s.messages) >= 2
             /\ s.messages[Len(s.messages) - 1] = g.userMessage
             /\ s.messages[Len(s.messages)] = e
             /\ ~e.isUser /\ e.slides = None

\* C10: at every moment at most one generation request and at most one export
\* operation is in flight.
C10_OneInFlight == Len(gens) <= 1 /\ Len(exports) <= 1

\* ------------------------------------------------------------ export claims
\* the percentage x is the fraction a / b
PctIs(x, a, b) == x.den > 0 /\ x.num * b = a * x.den

\* an export with a progress callback has settled
Exported == ppt.pc = "done" /\ ppt.onProgress
ExportSucceeded == Exported /\ ~ppt.result.threw
ExportFailed == Exported /\ ppt.result.threw
StepsOf(events) == [i \in 1..Len(events) |-> events[i].step]

\* C11: a successful export of n slides emits initializing at 10, then the n
\* creating_slides events, the k-th with currentSlide k, totalSlides n and
\* percentage 30 + 50 * (k - 1) / n, then finalizing at 90 and complete at 100;
\* the percentages never decrease.
C11_ProgressSequence ==
  ExportSucceeded =>
    LET n == Len(ppt.slides)
        ev == ppt.events
    IN  /\ Len(ev) = n + 3
        /\ ev[1].step = "initializing" /\ PctIs(ev[1].percentage, 10, 1)
        /\ \A k \in 1..n :
             /\ ev[k + 1].step = "creating_slides"
             /\ ev[k + 1].currentSlide = Some(k)
             /\ ev[k + 1].totalSlides = Some(n)
             /\ PctIs(ev[k + 1].percentage, 30 * n + 50 * (k - 1), n)
        /\ ev[n + 2].step = "finalizing" /\ PctIs(ev[n + 2].percentage, 90, 1)
        /\ ev[n + 3].step = "complete" /\ PctIs(ev[n + 3].percentage, 100, 1)
        /\ \A i \in 1..(Len(ev) - 1) : RatLeq(ev[i].percentage, ev[i + 1].percentage)

C11_Witness ==
  /\ ExportSucceeded
  /\ Len(ppt.slides) = 3
  /\ Len(ppt.events) = 6
  /\ ppt.events[3].percentage.den = 3
  /\ ppt.events[6].step = "complete"

\* C12: when the PDF write of a download export fails and the PPTX write that
\* follows does not, the export returns normally, has written one PPTX file,
\* ends with a complete event at 100 whose message notes the fallback, and
\* has emitted no error event.
C12_PdfFallsBackToPptx ==
  (Exported /\ ppt.pdfFailed /\ ~ppt.fallbackFailed) =>
    /\ ppt.result = Resolved(DownloadStarted)
    /\ Len(ppt.files) = 1 /\ ppt.files[1].extension = "pptx"
    /\ ppt.events[Len(ppt.events)].step = "complete"
    /\ PctIs(ppt.events[Len(ppt.events)].percentage, 100, 1)
    /\ ppt.events[Len(ppt.events)].message = PptxFallbackMsg
    /\ "error" \notin Range(StepsOf(ppt.events))

C12_Witness ==
  /\ Exported /\ ppt.pdfFailed /\ ~ppt.fallbackFailed
  /\ ppt.format = "pdf" /\ ~ppt.forPreview
  /\ Len(ppt.slides) = 2
  /\ ppt.files # <<>> /\ ppt.files[1].extension = "pptx" /\ Len(ppt.files[1].slides) = 2

\* C13 as stated: an export that fails has emitted exactly one error event, at
\* 0, as its last event, wherever it failed.
C13_OneTerminalError ==
  ExportFailed =>
    /\ ppt.events # <<>>
    /\ ppt.events[Len(ppt.events)].step = "error"
    /\ PctIs(ppt.events[Len(ppt.events)].percentage, 0, 1)
    /\ Cardinality({i \in 1..Len(ppt.events) : ppt.events[i].step = "error"}) = 1

\* C14 as stated: an export of an empty document fails, ends with the error
\* event, writes no file and emits no complete event.
C14_EmptyDocumentFails ==
  (Exported /\ ppt.window /\ ppt.slides = <<>>) =>
    /\ ppt.result.threw
    /\ ppt.events # <<>> /\ ppt.events[Len(ppt.events)].step = "error"
    /\ ppt.files = <<>> /\ ppt.urls = 0
    /\ "complete" \notin Range(StepsOf(ppt.events))

\* ---------------------------------------------------- page claims, continued
\* the Download PPTX button is shown and enabled
DownloadOffered == MainScreen /\ Len(ui.slides) > 0 /\ ~ui.isLoading

\* C15 as stated: with the API key missing the page still loads the persisted
\* sessions with their slides, and offers the export of those slides.
C15_ExportSurvivesMissingKey ==
  (ui.mounted /\ ~ui.apiKey) =>
    /\ ui.chatSessions = getSessions(store)
    /\ ui.currentSession = getCurrentSession(store)
    /\ LastAiSlides(MessagesOf(getCurrentSession(store))) # None =>
         /\ ui.slides = LastAiSlides(MessagesOf(getCurrentSession(store)))[1]
         /\ (ui.slides # <<>> /\ exports = <<>>) => DownloadOffered

\* the k-th message is the latest assistant message that carries slides
LatestWithSlides(messages, k) ==
  /\ ~messages[k].isUser /\ messages[k].slides # None
  /\ \A j \in (k + 1)..Len(messages) : messages[j].isUser \/ messages[j].slides = None

\* a session has just been loaded at startup or selected from the history
SessionLoaded ==
  lastOp.name \in {"mount", "select"} /\ ui.apiKey /\ ui.currentSession # None

\* C16: when a session is loaded at startup or selected, the current document
\* is the slides of its latest assistant message that carries slides, and is
\* empty when no message of the session carries slides.
C16_LatestSlidesAreCurrent ==
  SessionLoaded =>
    LET messages == ui.currentSession[1].messages
    IN  \/ \E k \in 1..Len(messages) :
             LatestWithSlides(messages, k) /\ ui.slides = messages[k].slides[1]
        \/ /\ \A k \in 1..Len(messages) : ~LatestWithSlides(messages, k)
           /\ ui.slides = <<>>

C16_Witness ==
  /\ SessionLoaded
  /\ lastOp.name = "select"
  /\ ui.currentSession[1].id = RetriedSession.id
  /\ LatestWithSlides(ui.messages, 2) /\ Len(ui.messages) = 4
  /\ ui.slides = Doc1

\* --------------------------------------------- session store claims, continued
\* C17 as stated: in every reachable store state no user-authored message
\* carries a slides field.
C17_UserMessagesCarryNoSlides ==
  \A s \in Range(getSessions(store)) :
    \A k \in 1..Len(s.messages) : s.messages[k].isUser => s.messages[k].slides = None

\* the session s with the slides of its last message and its updatedAt blanked
ButLastSlides(s) ==
  [s EXCEPT !.updatedAt = 0, !.messages[Len(s.messages)].slides = None]

\* C18: attachDocumentToLastAssistantMessage(d) leaves the collection and the
\* current pointer as they were unless the last message of the current session
\* is assistant-authored; then nothing but that message's slides and the
\* session's updatedAt differs, and after a normal return the slides are d.
C18_AttachChangesOnlyLastSlides ==
  lastOp.name = "attachDocument" =>
    LET before == getSessions(lastOp.pre)
        after == getSessions(store)
        cur == getCurrentSession(lastOp.pre)
        d == lastOp.arg[1]
    IN  /\ store.cur = lastOp.pre.cur
        /\ Len(after) = Len(before)
        /\ IF cur # None /\ cur[1].messages # <<>>
                /\ ~cur[1].messages[Len(cur[1].messages)].isUser
           THEN \A i \in 1..Len(before) :
                  IF before[i].id # cur[1].id THEN after[i] = before[i]
                  ELSE /\ Len(after[i].messages) = Len(before[i].messages)
                       /\ ButLastSlides(after[i]) = ButLastSlides(before[i])
                       /\ IF lastOp.threw THEN after[i] = before[i]
                          ELSE after[i].messages[Len(after[i].messages)].slides = Some(d)
           ELSE after = before /\ store.item = lastOp.pre.item /\ ~lastOp.threw

C18_Witness ==
  /\ lastOp.name = "attachDocument" /\ ~lastOp.threw
  /\ prevOp.name = "appendMessage" /\ ~prevOp.arg[1].isUser /\ prevOp.arg[2] = None
  /\ getCurrentSession(lastOp.pre) # None
  /\ getCurrentSession(store) # None
  /\ LET was == getCurrentSession(lastOp.pre)[1].messages
         is == getCurrentSession(store)[1].messages
     IN  Len(was) = 3 /\ was[3].slides = None /\ is[3].slides = Some(lastOp.arg[1])

\* C19: after deleteSession(id) no session has that id, the other sessions are
\* as they were and in the same order; when id was current the front of the
\* collection becomes current, or none when it is empty, and otherwise the
\* current pointer stays.
C19_DeleteSession ==
  (lastOp.name = "deleteSession" /\ ~lastOp.threw) =>
    LET id == lastOp.arg[1]
        before == getSessions(lastOp.pre)
        after == getSessions(store)
    IN  /\ id \notin SessionIds(store)
        /\ after = SelectSeq(before, LAMBDA s : s.id # id)
        /\ IF lastOp.pre.cur = id
           THEN /\ store.cur = IF after = <<>> THEN NoSession ELSE after[1].id
                /\ getCurrentSession(store) = IF after = <<>> THEN None ELSE Some(after[1])
           ELSE store.cur = lastOp.pre.cur

C19_Witness ==
  /\ lastOp.name = "deleteSession" /\ ~lastOp.threw
  /\ lastOp.pre.cur = lastOp.arg[1]
  /\ Len(getSessions(lastOp.pre)) = 2
  /\ getSessions(lastOp.pre)[1].id = lastOp.arg[1]
  /\ store.cur = OldSession.id
  /\ getSessions(store) = <<OldSession>>

\* C20: after clearAll(), and after the construction over an empty collection,
\* the collection is one session without messages, with the default title,
\* which is current; the construction over a non-empty collection creates no
\* session and makes the front session current.
C20_SingleDefaultSession ==
  /\ ((lastOp.name = "clearAll" /\ ~lastOp.threw)
        \/ (lastOp.name = "construct" /\ getSessions(lastOp.pre) = <<>>)) =>
       /\ ~lastOp.threw
       /\ Len(getSessions(store)) = 1
       /\ getSessions(store)[1].messages = <<>>
       /\ getSessions(store)[1].title = DefaultTitle
       /\ store.cur = getSessions(store)[1].id
       /\ getCurrentSession(store) = Some(getSessions(store)[1])
  /\ (lastOp.name = "construct" /\ getSessions(lastOp.pre) # <<>>) =>
       /\ getSessions(store) = getSessions(lastOp.pre)
       /\ store.cur = getSessions(store)[1].id

C20_Witness ==
  /\ lastOp.name = "clearAll" /\ ~lastOp.threw
  /\ Len(getSessions(lastOp.pre)) = 2
  /\ getSessions(lastOp.pre)[2] = OldSession
  /\ Len(getSessions(store)) = 1
  /\ getSessions(store)[1].id \notin SessionIds(lastOp.pre)
  /\ store.cur = getSessions(store)[1].id

\* C21: after createSession(t) the collection is the previous collection with
\* one new session in front of it; the new session has the title t, no
\* messages and an id no other session has, it is returned and it is current.
C21_CreateInsertsAtFront ==
  (lastOp.name = "createSession" /\ ~lastOp.threw) =>
    LET t == lastOp.arg[1]
        before == getSessions(lastOp.pre)
        after == getSessions(store)
    IN  /\ Len(after) = Len(before) + 1
        /\ Tail(after) = before
        /\ after[1].title = IF t = None THEN DefaultTitle ELSE t[1]
        /\ after[1].messages = <<>>
        /\ \A i \in 2..Len(after) : after[i].id # after[1].id
        /\ lastOp.ret = after[1]
        /\ store.cur = after[1].id
        /\ getCurrentSession(store) = Some(after[1])

C21_Witness ==
  /\ lastOp.name = "createSession" /\ ~lastOp.threw
  /\ lastOp.arg[1] = Some(DeckTitle)
  /\ prevOp.name = "createSession" /\ ~prevOp.threw
  /\ Len(getSessions(store)) = 3
  /\ getSessions(store)[3] = OldSession
  /\ getSessions(store)[1].title = DeckTitle
  /\ store.cur = getSessions(store)[1].id

HasUserMessage(s) == \E k \in 1..Len(s.messages) : s.messages[k].isUser

\* C22: appendMessage and attachDocumentToLastAssistantMessage leave the title
\* of every session that already holds a user-authored message; the first
\* user-authored message of a session sets its title to the one derived from
\* its text, and an assistant-authored message never changes a title.
C22_TitleFixedByFirstUserMessage ==
  lastOp.name \in {"appendMessage", "attachDocument"} =>
    LET before == getSessions(lastOp.pre)
        after == getSessions(store)
    IN  \A i \in 1..Len(before) : \A j \in 1..Len(after) :
          after[j].id = before[i].id =>
            IF /\ lastOp.name = "appendMessage" /\ ~lastOp.threw
               /\ lastOp.arg[1].isUser
               /\ before[i].id = lastOp.pre.cur
               /\ ~HasUserMessage(before[i])
            THEN after[j].title = generateSessionTitle(lastOp.arg[1].text)
            ELSE after[j].title = before[i].title

C22_Witness ==
  /\ lastOp.name = "appendMessage" /\ ~lastOp.threw
  /\ lastOp.arg[1].isUser /\ lastOp.arg[1].text = LongText
  /\ getCurrentSession(lastOp.pre) # None
  /\ HasUserMessage(getCurrentSession(lastOp.pre)[1])
  /\ getCurrentSession(store) # None
  /\ Len(getCurrentSession(store)[1].messages) = 3
  /\ getCurrentSession(store)[1].title = ShortText

SpacesIn(text) == Cardinality({i \in 1..Len(text) : text[i] = " "})

\* joined is the first five space-separated words of text, joined by one space:
\* the text up to its fifth space, or all of it when it has fewer
FirstFiveWords(text, joined) ==
  /\ Len(joined) <= Len(text)
  /\ joined = SubSeq(text, 1, Len(joined))
  /\ IF SpacesIn(text) < 5 THEN joined = text
     ELSE SpacesIn(joined) = 4 /\ text[Len(joined) + 1] = " "

\* C23: the derived title is the first five space-separated words joined by
\* single spaces, cut to 30 characters followed by '...' when longer than 30
\* and unchanged otherwise.
C23_TitleDerivation ==
  lastOp.name = "generateSessionTitle" =>
    LET text == lastOp.arg[1]
        title == lastOp.ret
    IN  \E n \in 0..Len(text) :
          /\ FirstFiveWords(text, SubSeq(text, 1, n))
          /\ title = IF n > 30 THEN SubSeq(text, 1, 30) \o <<".", ".", ".">>
                     ELSE SubSeq(text, 1, n)

C23_Witness ==
  /\ lastOp.name = "generateSessionTitle"
  /\ lastOp.arg[1] = Text31
  /\ Len(lastOp.ret) = 33
  /\ SubSeq(lastOp.ret, 31, 33) = <<".", ".", ".">>

\* ----------------------------------------------------- export claims, continued
\* the content of the slide is a sequence of strings
HasContentLines(slide) ==
  /\ GetMember(slide, ContentKey) # None
  /\ GetMember(slide, ContentKey)[1].t = "arr"
  /\ \A k \in 1..Len(GetMember(slide, ContentKey)[1].v) :
       GetMember(slide, ContentKey)[1].v[k].t = "str"
ContentLines(slide) == GetMember(slide, ContentKey)[1].v
ShowsOneLine(slide) ==
  GetMember(slide, LayoutKey) \in {Some(JStr(<<"T","I","T","L","E">>)),
      Some(JStr(<<"S","E","C","T","I","O","N","_","H","E","A","D","E","R">>))}

\* C24: a slide with layout TITLE or SECTION_HEADER renders its title and, when
\* it has content, only the first content line; a slide with any other layout
\* renders its title, every content line in order as a bulleted row and the
\* number label index + 1; a layout that is not recognized raises no error.
C24_RenderedElements ==
  /\ \A k \in 1..Len(ppt.rendered) :
       LET slide == ppt.slides[k]
           texts == ppt.rendered[k]
       IN  HasContentLines(slide) =>
             LET lines == ContentLines(slide)
             IN  /\ texts[1].role = "title" /\ texts[1].text = TitleOf(slide)
                 /\ IF ShowsOneLine(slide)
                    THEN IF lines = <<>> THEN Len(texts) = 1
                         ELSE /\ Len(texts) = 2
                              /\ texts[2].text = Some(lines[1].v)
                              /\ texts[2].role # "bullet"
                    ELSE /\ Len(texts) = Len(lines) + 2
                         /\ \A j \in 1..Len(lines) :
                              /\ texts[j + 1].role = "bullet"
                              /\ texts[j + 1].text = Some(<<BulletMark, " ">> \o lines[j].v)
                         /\ texts[Len(texts)].role = "number"
                         /\ texts[Len(texts)].text = Some(DigitsOf(k))
  /\ (ppt.pc = "done" /\ ppt.result = Rejected(TypeErrorMsg)) =>
       ~HasContentLines(ppt.slides[Len(ppt.rendered) + 1])

C24_Witness ==
  /\ ppt.pc = "done" /\ ~ppt.result.threw
  /\ Len(ppt.rendered) = 2
  /\ ~ShowsOneLine(ppt.slides[2])
  /\ GetMember(ppt.slides[2], LayoutKey) # Some(JStr(LayoutTitleContent))
  /\ Len(ContentLines(ppt.slides[2])) = 3
  /\ Len(ppt.rendered[2]) = 5
  /\ ppt.rendered[1] = <<TextElement(Some(<<"T">>), "title")>>

\* ---------------------------------------------------- page claims, continued
\* a generation attempt has ended and its assistant message was stored
ReplyStored == lastOp.name \in {"generationDone", "generationFailed"} /\ ~lastOp.threw

\* C25 as stated: the assistant message of a generation attempt is the last
\* message of the session that received the prompt of that attempt.
C25_ReplyJoinsItsPrompt ==
  ReplyStored =>
    LET g == lastOp.arg[1]
        reply == lastOp.arg[2]
    IN  /\ g.target # None
        /\ \E s \in Range(getSessions(store)) :
             /\ s.id = g.target[1]
             /\ s.messages # <<>>
             /\ s.messages[Len(s.messages)] = reply
             /\ g.userMessage \in Range(s.messages)

\* --------------------------------------------------- store claims, continued
\* C26 as stated: after appendMessage(m) returns, m is the last message of the
\* session returned by getCurrentSession(), whatever calls came before.
C26_AppendedMessageIsKept ==
  (lastOp.name = "appendMessage" /\ ~lastOp.threw) =>
    /\ getCurrentSession(store) # None
    /\ LET messages == getCurrentSession(store)[1].messages
       IN  /\ messages # <<>>
           /\ messages[Len(messages)] = WithSlides(lastOp.arg[1], lastOp.arg[2])

\* ---------------------------------------------------- page claims, continued
\* a send has got its reply, or New Chat, a history row or a delete button has
\* been handled
UiActionCompleted ==
  /\ lastOp.name \in {"generationDone", "generationFailed", "newChat", "select", "delete"}
  /\ ~lastOp.threw

\* the document the page shows and hands to the next generateSlides is the
\* slides of the latest slide-bearing assistant message of the session shown
ShownDocumentIsLatest ==
  LET messages == MessagesOf(ui.currentSession)
  IN  \/ \E k \in 1..Len(messages) :
           LatestWithSlides(messages, k) /\ ui.slides = messages[k].slides[1]
      \/ /\ \A k \in 1..Len(messages) : ~LatestWithSlides(messages, k)
         /\ ui.slides = <<>>

\* C27 as stated: after every completed UI action the document shown equals
\* the slides of the latest slide-bearing assistant message of the session
\* shown as current, and is empty when that session has none.
C27_DocumentFollowsSession == UiActionCompleted => ShownDocumentIsLatest

\* a handler of the page that reads or writes the session store has run
StoreHandlerRan ==
  /\ lastOp.name \in {"mount", "send", "timerSends", "generationDone", "generationFailed",
                      "newChat", "select", "delete", "clearAll"}
  /\ ~lastOp.threw
  /\ ui.apiKey

\* C28 as stated: after every UI action the session list and the current
\* session of the UI state equal listSessions() and getCurrentSession() of the
\* store, and every session id the UI offers is the id of a stored session.
C28_UiMirrorsStore ==
  StoreHandlerRan =>
    /\ ui.chatSessions = getSessions(store)
    /\ ui.currentSession = getCurrentSession(store)
    /\ \A i \in 1..Len(ui.chatSessions) : ui.chatSessions[i].id \in SessionIds(store)

\* handleSend has run to its end for some generation attempt
AttemptEnded == lastOp.name \in {"generationDone", "generationFailed", "replyNotStored"}

\* C29: whenever a generation attempt is in flight, handleSend eventually runs
\* to its end for it with the loading flag cleared, whether generateSlides
\* resolved or rejected and whether or not storing the reply threw.
C29_LoadingEnds == (gens # <<>>) ~> (AttemptEnded /\ ~ui.isLoading)

\* the reply could not be stored, the error message could not be stored
\* either, and the flag is cleared all the same
C29_Witness ==
  /\ lastOp.name = "replyNotStored" /\ lastOp.threw
  /\ prevOp.name = "quota"
  /\ gens = <<>>
  /\ ~ui.isLoading

====
